---- MODULE Spec2Model ----
(***************************************************************************)
(* Model of tools/Graph.py: the Node / Edge / Graph classes, and of the    *)
(* callers that build a graph from a text: Graph.from_str with             *)
(* completing_a_tree, and genome_assembly_as_shortest_superstring with     *)
(* the overlap functions of tools/functions.py.                            *)
(*                                                                         *)
(* A Node object is identified with its payload (Node.__eq__ and           *)
(* Node.__hash__ go by obj); one Node object is constructed per payload,   *)
(* and payloads are numbered in the order in which their nodes are made.   *)
(* An Edge object is a record of its endpoints, its tag and an object      *)
(* identity oid: Edge.__eq__ ignores the identity, reference counting      *)
(* (which decides when Edge.__del__ runs) does not.  Callers keep no       *)
(* reference to an Edge beyond the call they pass it to, as the callers    *)
(* in the repository do.                                                   *)
(***************************************************************************)
EXTENDS Integers, Sequences, FiniteSets, TLC

MaxOps == 5

\* Edge-list texts: the node count declared and the number of pair lines.
MaxNum == 3
MaxLines == 3

\* Reads: how many symbols the reads handed in have together.
MaxSymbols == 9

\* Every node costs a call, so MaxOps payloads are enough.
Payloads == 1..MaxOps
Tags == {"None", "adj"}

VARIABLES directed, nodes, edges, nedges, incoming_nodes, outgoing_nodes,
          neighbors, created, ops, last

gvars == <<nodes, edges, nedges, incoming_nodes, outgoing_nodes, neighbors>>
vars == <<directed, nodes, edges, nedges, incoming_nodes, outgoing_nodes,
          neighbors, created, ops, last>>

\* A call and its outcome: the operation, its arguments, the error raised
\* ("" for none) and the value returned.
Call(op, args, err, ret) == [op |-> op, args |-> args, err |-> err, ret |-> ret]

NoCall == Call("init", <<>>, "", <<>>)

Range(s) == {s[i] : i \in DOMAIN s}

\* The graph and the per-node lists as one value.
Cur ==
  [nodes |-> nodes, edges |-> edges, nedges |-> nedges,
   incoming_nodes |-> incoming_nodes, outgoing_nodes |-> outgoing_nodes,
   neighbors |-> neighbors]

\* Edge.__eq__(self, other); every edge of a graph carries the graph's flag.
Edge_eq(self, other) ==
  IF directed
  THEN self.node1 = other.node1 /\ self.node2 = other.node2 /\ self.tag = other.tag
  ELSE /\ self.node1 \in {other.node1, other.node2}
       /\ self.node2 \in {other.node1, other.node2}
       /\ self.tag = other.tag

\* `x in list` on a list of edges: the list item is the left operand of ==.
Contains(list, x) ==
  \E i \in DOMAIN list : list[i] = x \/ Edge_eq(list[i], x)

\* [e for e in list if e != x]
Without(list, x) == SelectSeq(list, LAMBDA e : ~Edge_eq(e, x))

\* An Edge object is alive while some list holds it.
Referenced(S, e) ==
  \/ e \in Range(S.edges)
  \/ \E n \in DOMAIN S.nedges : e \in Range(S.nedges[n])

Live(S) == Range(S.edges) \cup UNION {Range(S.nedges[n]) : n \in DOMAIN S.nedges}

\* Edge(node1, node2, directed, tag): a new object, distinct from the live ones.
NewEdge(S, a, b, tag) ==
  LET used == {e.oid : e \in {x \in Live(S) :
                 x.node1 = a /\ x.node2 = b /\ x.tag = tag}}
  IN [node1 |-> a, node2 |-> b, tag |-> tag,
      oid |-> CHOOSE k \in 0..3 : k \notin used /\ \A j \in 0..(k-1) : j \in used]

add_outgoing(S, n, m) ==
  [S EXCEPT
     !.outgoing_nodes[n] = IF m \in Range(@) THEN @ ELSE Append(@, m),
     !.neighbors[n] = IF m \in Range(@) THEN @ ELSE Append(@, m)]

add_incoming(S, n, m) ==
  [S EXCEPT
     !.incoming_nodes[n] = IF m \in Range(@) THEN @ ELSE Append(@, m),
     !.neighbors[n] = IF m \in Range(@) THEN @ ELSE Append(@, m)]

Node_add_edge(S, n, edge) ==
  LET other_node == IF n # edge.node1 THEN edge.node1 ELSE edge.node2
      S1 == IF ~Contains(S.nedges[n], edge)
            THEN [S EXCEPT !.nedges[n] = Append(@, edge)]
            ELSE S
  IN IF ~directed
     THEN add_outgoing(add_incoming(S1, n, other_node), n, other_node)
     ELSE IF edge.node1 = n
          THEN add_outgoing(S1, n, other_node)
          ELSE add_incoming(S1, n, other_node)

Edge_init(S, edge) ==
  Node_add_edge(Node_add_edge(S, edge.node1, edge), edge.node2, edge)

RECURSIVE Node_remove_edge(_, _, _, _)
RECURSIVE Edge_del(_, _, _)
RECURSIVE Release(_, _, _, _)

\* A list `old` is freed: its items lose a reference, last item first, and an
\* Edge nothing refers to any more (and no running call holds: held) is
\* finalised on the spot.
Release(S, old, i, held) ==
  IF i = 0 THEN S
  ELSE LET e == old[i]
           S1 == IF e \notin held /\ ~Referenced(S, e)
                 THEN Edge_del(S, e, held \cup {e})
                 ELSE S
       IN Release(S1, old, i - 1, held)

Node_remove_edge(S, n, edge, held) ==
  LET other_node == IF n # edge.node1 THEN edge.node1 ELSE edge.node2
      old == S.nedges[n]
      S1 == [S EXCEPT !.nedges[n] = Without(old, edge)]
      S2 == Release(S1, old, Len(old), held)
      S3 == [S2 EXCEPT
               !.outgoing_nodes[n] = SelectSeq(@, LAMBDA m : m # other_node),
               !.incoming_nodes[n] = SelectSeq(@, LAMBDA m : m # other_node)]
      edge_nodes == UNION {{e.node1, e.node2} : e \in Range(S3.nedges[n])}
  IN [S3 EXCEPT !.neighbors[n] = SelectSeq(@, LAMBDA m : m \notin edge_nodes)]

Edge_del(S, edge, held) ==
  Node_remove_edge(Node_remove_edge(S, edge.node1, edge, held),
                   edge.node2, edge, held)

\* Graph.__contains__
InGraph(S, obj) == obj \in Range(S.nodes)

\* Graph.get_node_by_obj: the position of the first node with that payload.
get_node_by_obj(S, obj) ==
  CHOOSE i \in DOMAIN S.nodes :
    S.nodes[i] = obj /\ \A j \in 1..(i-1) : S.nodes[j] # obj

\* add_node without the containment test.
Graph_add_node_always(S, obj) ==
  [g |-> [S EXCEPT !.nodes = Append(@, obj)], ret |-> Len(S.nodes) + 1]

\* Graph.add_node: the graph afterwards and the position of the returned node.
Graph_add_node(S, obj) ==
  IF InGraph(S, obj)
  THEN [g |-> S, ret |-> get_node_by_obj(S, obj)]
  ELSE [g |-> [S EXCEPT !.nodes = Append(@, obj)], ret |-> Len(S.nodes) + 1]

\* The membership check with the second endpoint forgotten.
NotInGraph_first(S, node1, node2) == ~InGraph(S, node1)

\* The membership check of Graph.add_edge.
NotInGraph(S, node1, node2) == ~InGraph(S, node1) \/ ~InGraph(S, node2)

\* Graph.add_edge: the graph afterwards (the temporary Edge is finalised on
\* return when no list took it), the error raised and the edge returned.
Graph_add_edge(S, node1, node2, tag) ==
  IF NotInGraph(S, node1, node2)
  THEN [g |-> S, err |-> "NodeNotInGraphError", ret |-> <<>>]
  ELSE
  LET edge == NewEdge(S, node1, node2, tag)
      S1 == Edge_init(S, edge)
  IN IF ~Contains(S1.edges, edge)
     THEN [g |-> [S1 EXCEPT !.edges = Append(@, edge)], err |-> "", ret |-> edge]
     ELSE [g |-> IF Referenced(S1, edge) THEN S1 ELSE Edge_del(S1, edge, {edge}),
           err |-> "",
           ret |-> LET i == CHOOSE i \in DOMAIN S1.edges :
                              /\ Edge_eq(S1.edges[i], edge)
                              /\ \A j \in 1..(i-1) : ~Edge_eq(S1.edges[j], edge)
                   IN S1.edges[i]]

Install(S) ==
  /\ nodes' = S.nodes
  /\ edges' = S.edges
  /\ nedges' = S.nedges
  /\ incoming_nodes' = S.incoming_nodes
  /\ outgoing_nodes' = S.outgoing_nodes
  /\ neighbors' = S.neighbors

\* Graph.remove_edge(edge) for an edge the caller took from the graph, up to
\* the caller letting go of it (which finalises it once more).
Graph_remove_edge(S, edge) ==
  LET old == S.edges
      S1 == [S EXCEPT !.edges = Without(old, edge)]
      S2 == Release(S1, old, Len(old), {edge})
      S3 == Edge_del(S2, edge, {edge})
  IN IF Referenced(S3, edge) THEN S3 ELSE Edge_del(S3, edge, {edge})

\* remove_edge_and_nodes that drops the endpoints of the edge only.
Graph_remove_edge_and_nodes_endpoints(S, edge) ==
  LET S1 == Graph_remove_edge(S, edge)
  IN [S1 EXCEPT !.nodes =
        SelectSeq(@, LAMBDA n : ~(/\ n \in {edge.node1, edge.node2}
                                  /\ Len(S1.neighbors[n]) = 0))]

\* Graph.remove_edge_and_nodes(edge): the graph afterwards.
Graph_remove_edge_and_nodes(S, edge) ==
  LET S1 == Graph_remove_edge(S, edge)
  IN [S1 EXCEPT !.nodes = SelectSeq(@, LAMBDA n : Len(S1.neighbors[n]) # 0)]

\* itertools.permutations(self.nodes, r=2): the k-th pair of positions.
PermPair(n, k) ==
  LET i == ((k - 1) \div (n - 1)) + 1
      r == ((k - 1) % (n - 1)) + 1
  IN <<i, IF r < i THEN r ELSE r + 1>>

RECURSIVE JoinFrom(_, _, _, _)
\* The loop of Graph.join_nodes_by_func from the k-th pair on; ns is the node
\* list the permutations were taken from, f the set of payload pairs on which
\* the predicate holds.
JoinFrom(S, ns, f, k) ==
  IF Len(ns) < 2 \/ k > Len(ns) * (Len(ns) - 1) THEN S
  ELSE LET p == PermPair(Len(ns), k)
           n1 == ns[p[1]]
           n2 == ns[p[2]]
           S1 == IF <<n1, n2>> \in f
                 THEN Graph_add_edge(S, n1, n2, "None").g
                 ELSE S
       IN JoinFrom(S1, ns, f, k + 1)

Graph_join_nodes_by_func(S, f) == JoinFrom(S, S.nodes, f, 1)

degree(S, n) == Len(S.nedges[n])
is_connected(S, n) == degree(S, n) > 0
is_leaf(S, n) == degree(S, n) = 1
has_incoming(S, n) == Len(S.incoming_nodes[n]) > 0
has_outgoing(S, n) == Len(S.outgoing_nodes[n]) > 0

\* Graph.starting_nodes: the error raised and the list returned.
Graph_starting_nodes(S) ==
  IF ~directed
  THEN [err |-> "ValueError", ret |-> <<>>]
  ELSE [err |-> "",
        ret |-> SelectSeq(S.nodes, LAMBDA n : ~has_incoming(S, n) /\ is_connected(S, n))]

\* ending_nodes without the test of the directed flag.
Graph_ending_nodes_unchecked(S) ==
  [err |-> "",
   ret |-> SelectSeq(S.nodes, LAMBDA n : ~has_outgoing(S, n) /\ is_connected(S, n))]

\* Graph.ending_nodes: the error raised and the list returned.
Graph_ending_nodes(S) ==
  IF ~directed
  THEN [err |-> "ValueError", ret |-> <<>>]
  ELSE [err |-> "",
        ret |-> SelectSeq(S.nodes, LAMBDA n : ~has_outgoing(S, n) /\ is_connected(S, n))]

\* is_linear with the degree test forgotten.
Graph_is_linear_any_degree(S) ==
  IF Graph_starting_nodes(S).err # ""
  THEN [err |-> Graph_starting_nodes(S).err, ret |-> <<>>]
  ELSE [err |-> "",
        ret |-> /\ Len(Graph_starting_nodes(S).ret) = 1
                /\ Len(Graph_ending_nodes(S).ret) = 1]

\* Graph.is_linear: `and` evaluates left to right and stops at the first false
\* operand, so starting_nodes() is only called (and only then raises) when
\* every node has degree <= 2.
Graph_is_linear(S) ==
  IF ~\A i \in DOMAIN S.nodes : degree(S, S.nodes[i]) <= 2
  THEN [err |-> "", ret |-> FALSE]
  ELSE IF Graph_starting_nodes(S).err # ""
  THEN [err |-> Graph_starting_nodes(S).err, ret |-> <<>>]
  ELSE IF Len(Graph_starting_nodes(S).ret) # 1
  THEN [err |-> "", ret |-> FALSE]
  ELSE [err |-> Graph_ending_nodes(S).err,
        ret |-> Len(Graph_ending_nodes(S).ret) = 1]

Init ==
  /\ directed \in BOOLEAN
  /\ nodes = <<>>
  /\ edges = <<>>
  /\ nedges = [n \in Payloads |-> <<>>]
  /\ incoming_nodes = [n \in Payloads |-> <<>>]
  /\ outgoing_nodes = [n \in Payloads |-> <<>>]
  /\ neighbors = [n \in Payloads |-> <<>>]
  /\ created = {}
  /\ ops = 0
  /\ last = NoCall

\* ops counts the calls of add_node, add_edge and remove_edge made so far.
Cost(n) ==
  /\ ops + n <= MaxOps
  /\ ops' = ops + n
  /\ UNCHANGED directed

Step == Cost(1)

\* A node can be made for the next payload not used yet.
Addable(obj) == obj \in Range(nodes) \/ obj = Cardinality(created) + 1

\* The nodes a caller passes to add_edge: the ones made so far and a foreign one.
Known == created \cup {Cardinality(created) + 1}

\* A query leaves the graph alone.
Query == UNCHANGED <<directed, gvars, created, ops>>

AddNode(obj) ==
  /\ Step
  /\ Addable(obj)
  /\ LET r == Graph_add_node(Cur, obj)
     IN /\ Install(r.g)
        /\ last' = Call("add_node", <<obj>>, "", r.ret)
  /\ created' = created \cup {obj}

AddEdge(node1, node2, tag) ==
  /\ Step
  /\ LET r == Graph_add_edge(Cur, node1, node2, tag)
     IN /\ Install(r.g)
        /\ last' = Call("add_edge", <<node1, node2, tag>>, r.err, r.ret)
  /\ UNCHANGED created

RemoveEdge(i) ==
  /\ Step
  /\ i \in DOMAIN edges
  /\ Install(Graph_remove_edge(Cur, edges[i]))
  /\ last' = Call("remove_edge", <<edges[i]>>, "", <<>>)
  /\ UNCHANGED created

RemoveEdgeAndNodes(i) ==
  /\ Step
  /\ i \in DOMAIN edges
  /\ Install(Graph_remove_edge_and_nodes(Cur, edges[i]))
  /\ last' = Call("remove_edge_and_nodes", <<edges[i]>>, "", <<>>)
  /\ UNCHANGED created

\* The predicates handed to join_nodes_by_func, as the set of ordered pairs
\* of distinct payloads of the graph on which they hold.
RECURSIVE UpTo(_, _)
UpTo(S, k) ==
  IF k = 0 THEN {{}}
  ELSE LET smaller == UpTo(S, k - 1)
       IN smaller \cup {T \cup {x} : T \in smaller, x \in S}

\* (those that fit in the calls left: each pair costs a call of add_edge)
Predicates ==
  UpTo({pr \in Range(nodes) \X Range(nodes) : pr[1] # pr[2]}, MaxOps - ops)

JoinNodesByFunc(f) ==
  /\ Cost(Cardinality(f))
  /\ Install(Graph_join_nodes_by_func(Cur, f))
  /\ last' = Call("join_nodes_by_func", <<f>>, "", <<>>)
  /\ UNCHANGED created

StartingNodes ==
  /\ Query
  /\ LET r == Graph_starting_nodes(Cur)
     IN last' = Call("starting_nodes", <<>>, r.err, r.ret)

EndingNodes ==
  /\ Query
  /\ LET r == Graph_ending_nodes(Cur)
     IN last' = Call("ending_nodes", <<>>, r.err, r.ret)

\* None, where the code passes no node.
None == 0

RECURSIVE fill_from_node(_, _, _, _)
RECURSIVE FillEach(_, _, _, _)
\* The loop `for neigh in next_nodes` of fill_from_node: the set filled is one
\* object, which every recursive call adds to.
FillEach(S, node, next_nodes, filled) ==
  IF next_nodes = {} THEN filled
  ELSE LET neigh == CHOOSE x \in next_nodes : TRUE
       IN FillEach(S, node, next_nodes \ {neigh},
                   fill_from_node(S, neigh, node, filled))

\* fill_from_node whose callees work on copies of the set filled: what they
\* add is lost.
fill_from_node_unshared(S, node, prev, filled) ==
  IF filled # {} /\ node \in filled THEN filled ELSE filled \cup {node}

\* Graph.fill_from_node(node, prev, filled); filled = {} stands for None too.
fill_from_node(S, node, prev, filled) ==
  IF filled # {} /\ node \in filled THEN filled
  ELSE LET next_nodes == IF prev # None
                         THEN Range(S.neighbors[node]) \ {prev}
                         ELSE Range(S.neighbors[node])
       IN FillEach(S, node, next_nodes, filled \cup {node})

RECURSIVE FillsFrom(_, _, _)
\* The loop of disconnected_subgraphs from the k-th node on.
FillsFrom(S, fills, k) ==
  IF k > Len(S.nodes) THEN fills
  ELSE LET f == fill_from_node(S, S.nodes[k], None, {})
       IN FillsFrom(S, IF f \notin Range(fills) THEN Append(fills, f) ELSE fills,
                    k + 1)

\* Graph.disconnected_subgraphs: the list of fills.
Graph_disconnected_subgraphs(S) == FillsFrom(S, <<>>, 1)

\* Graph(): no node, no edge; D are the payloads nodes can be made for.
GraphOver(D) ==
  [nodes |-> <<>>, edges |-> <<>>,
   nedges |-> [n \in D |-> <<>>],
   incoming_nodes |-> [n \in D |-> <<>>],
   outgoing_nodes |-> [n \in D |-> <<>>],
   neighbors |-> [n \in D |-> <<>>]]

EmptyGraph == GraphOver(Payloads)

RECURSIVE AddNodesFrom(_, _, _)
AddNodesFrom(S, objs, k) ==
  IF k > Len(objs) THEN S
  ELSE AddNodesFrom(Graph_add_node(S, objs[k]).g, objs, k + 1)

\* Graph.add_nodes: the graph afterwards.
Graph_add_nodes(S, objs) == AddNodesFrom(S, objs, 1)

RECURSIVE EdgesFrom(_, _, _)
\* The loop of from_str over edge_list from the k-th pair on;
\* get_node_by_obj raises ValueError for a label no node has.
EdgesFrom(S, edge_list, k) ==
  IF k > Len(edge_list) THEN [g |-> S, err |-> ""]
  ELSE LET e == edge_list[k]
       IN IF ~InGraph(S, e[1]) \/ ~InGraph(S, e[2])
          THEN [g |-> S, err |-> "ValueError"]
          ELSE EdgesFrom(Graph_add_edge(S, e[1], e[2], "None").g, edge_list, k + 1)

\* Graph.from_str(s).  The text s is the sequence of its lines, a line the
\* sequence of the numbers on it; <<>> is the empty string.  The first number
\* of the first line is the node count, every other line must hold two
\* numbers.  The graph made is undirected.
Graph_from_str(s) ==
  IF s = <<>> THEN [g |-> EmptyGraph, err |-> "ValueError"]
  ELSE IF \E i \in 2..Len(s) : Len(s[i]) # 2
  THEN [g |-> EmptyGraph, err |-> "ValueError"]
  ELSE LET num_nodes == s[1][1]
           edge_list == [i \in 1..(Len(s) - 1) |-> <<s[i + 1][1], s[i + 1][2]>>]
           g == Graph_add_nodes(GraphOver(Payloads \cup 1..num_nodes),
                                [i \in 1..num_nodes |-> i])
       IN EdgesFrom(g, edge_list, 1)

\* completing_a_tree with the count of the fills returned as it is.
completing_a_tree_fills(s) ==
  LET r == Graph_from_str(s)
  IN IF r.err # "" THEN [g |-> r.g, err |-> r.err, ret |-> <<>>]
     ELSE [g |-> r.g, err |-> "",
           ret |-> Len(Graph_disconnected_subgraphs(r.g))]

\* completing_a_tree(s): the error raised and the number returned.
completing_a_tree(s) ==
  LET r == Graph_from_str(s)
  IN IF r.err # "" THEN [g |-> r.g, err |-> r.err, ret |-> <<>>]
     ELSE [g |-> r.g, err |-> "",
           ret |-> Len(Graph_disconnected_subgraphs(r.g)) - 1]

\* functions.overlap(f1, f2, overlap = i): f1[-i:] == f2[:i], for
\* 1 <= i <= len(f1).  A Fasta is the sequence of its symbols: Fasta.__eq__,
\* __len__ and __getitem__ go by the sequence, and the ids decide nothing.
overlap(f1, f2, i) ==
  SubSeq(f1, Len(f1) - i + 1, Len(f1)) = SubSeq(f2, 1, IF i <= Len(f2) THEN i ELSE Len(f2))

\* functions.max_overlap: the loop keeps the last i for which the reads
\* overlap.
max_overlap(f1, f2) ==
  LET min_size == IF Len(f1) <= Len(f2) THEN Len(f1) ELSE Len(f2)
      hits == {i \in 1..min_size : overlap(f1, f2, i)}
  IN IF hits = {} THEN 0 ELSE CHOOSE i \in hits : \A j \in hits : j <= i

\* join_reads that cuts one symbol more than the overlap.
join_reads_off_by_one(f1, f2) ==
  f1 \o SubSeq(f2, max_overlap(f1, f2) + 2, Len(f2))

\* functions.join_reads(f1, f2), min_overlap = 0: the sequence of the result.
join_reads(f1, f2) ==
  f1 \o SubSeq(f2, max_overlap(f1, f2) + 1, Len(f2))

\* The node payload of the i-th read: the first read equal to it (add_node
\* keeps the first of two equal Fasta).
ReadNode(fastas, i) ==
  CHOOSE j \in 1..i : fastas[j] = fastas[i] /\ \A k \in 1..(j - 1) : fastas[k] # fastas[i]

RECURSIVE WalkFrom(_, _)
\* while len(order) < len(g.edges) + 1: order.append(order[-1].outgoing_nodes[0])
WalkFrom(S, order) ==
  IF ~(Len(order) < Len(S.edges) + 1) THEN [err |-> "", order |-> order]
  ELSE LET out == S.outgoing_nodes[order[Len(order)]]
       IN IF out = <<>> THEN [err |-> "IndexError", order |-> order]
          ELSE WalkFrom(S, Append(order, out[1]))

\* The walk begun at the first node of the graph.
WalkStart_first_node(S) == <<S.nodes[1]>>

\* order = [g.starting_nodes()[0]]
WalkStart(S) == <<Graph_starting_nodes(S).ret[1]>>

RECURSIVE JoinAll(_, _, _, _)
\* for f in order[1:]: ret = join_reads(ret, f.obj)
JoinAll(fastas, order, k, ret) ==
  IF k > Len(order) THEN ret
  ELSE JoinAll(fastas, order, k + 1, join_reads(ret, fastas[order[k]]))

\* genome_assembly_as_shortest_superstring on the reads of the text, in the
\* order of the text: the graph built, the error raised, the order walked,
\* the string returned, and how far the run got.
genome_assembly_as_shortest_superstring(fastas) ==
  IF fastas = <<>>
  THEN [g |-> EmptyGraph, err |-> "ValueError", state |-> "Unbuilt",
        order |-> <<>>, ret |-> <<>>]
  ELSE
  LET min_len == CHOOSE l \in {Len(fastas[i]) : i \in DOMAIN fastas} :
                   \A i \in DOMAIN fastas : l <= Len(fastas[i])
      min_overlap == min_len \div 2
      f == {pr \in (DOMAIN fastas) \X (DOMAIN fastas) :
              /\ fastas[pr[1]] # fastas[pr[2]]
              /\ max_overlap(fastas[pr[1]], fastas[pr[2]]) > min_overlap}
      g0 == Graph_add_nodes(GraphOver(Payloads \cup DOMAIN fastas),
                            [i \in DOMAIN fastas |-> ReadNode(fastas, i)])
      g == Graph_join_nodes_by_func(g0, f)
  IN IF Graph_is_linear(g).ret # TRUE
     THEN [g |-> g, err |-> "ValueError", state |-> "Rejected",
           order |-> <<>>, ret |-> <<>>]
     ELSE LET w == WalkFrom(g, WalkStart(g))
          IN IF w.err # ""
             THEN [g |-> g, err |-> w.err, state |-> "LinearVerified",
                   order |-> w.order, ret |-> <<>>]
             ELSE [g |-> g, err |-> "", state |-> "Assembled",
                   order |-> w.order,
                   ret |-> JoinAll(fastas, w.order, 2, fastas[w.order[1]])]

IsLinear ==
  /\ Query
  /\ LET r == Graph_is_linear(Cur)
     IN last' = Call("is_linear", <<>>, r.err, r.ret)

DisconnectedSubgraphs ==
  /\ Query
  /\ last' = Call("disconnected_subgraphs", <<>>, "",
                  Graph_disconnected_subgraphs(Cur))

Next ==
  \/ \E obj \in Payloads : AddNode(obj)
  \/ \E a \in Known, b \in Known, t \in Tags : AddEdge(a, b, t)
  \/ \E i \in 1..Len(edges) : RemoveEdge(i)
  \/ \E i \in 1..Len(edges) : RemoveEdgeAndNodes(i)
  \/ \E f \in Predicates : JoinNodesByFunc(f)
  \/ StartingNodes
  \/ EndingNodes
  \/ IsLinear
  \/ DisconnectedSubgraphs

Spec == Init /\ [][Next]_vars

\* add_node, add_edge and remove_edge only.
NextEdit ==
  \/ \E obj \in Payloads : AddNode(obj)
  \/ \E a \in Known, b \in Known, t \in Tags : AddEdge(a, b, t)
  \/ \E i \in 1..Len(edges) : RemoveEdge(i)

SpecEdit == Init /\ [][NextEdit]_vars

\* add_node, add_edge, remove_edge and remove_edge_and_nodes only.
NextEditNodes ==
  \/ NextEdit
  \/ \E i \in 1..Len(edges) : RemoveEdgeAndNodes(i)

SpecEditNodes == Init /\ [][NextEditNodes]_vars

RECURSIVE SeqsUpTo(_, _)
\* the sequences over S of length <= k
SeqsUpTo(S, k) ==
  IF k = 0 THEN {<<>>}
  ELSE LET shorter == SeqsUpTo(S, k - 1)
       IN shorter \cup {Append(q, x) : q \in shorter, x \in S}

\* The text of test_completing_a_tree.
TreeExample ==
  <<<<10>>, <<1, 2>>, <<2, 8>>, <<4, 10>>, <<5, 9>>, <<6, 10>>, <<7, 9>>>>

\* The edge-list texts handed in: the empty string, the text of the test, and
\* a line with a node count followed by lines with two labels each.
Texts ==
  {<<>>, TreeExample} \cup
  {<<<<n>>>> \o ls : n \in 1..MaxNum,
                    ls \in SeqsUpTo((1..MaxNum) \X (1..MaxNum), MaxLines)}

\* g = Graph.from_str(s), called once in a run; when it raises there is no
\* graph.
FromStr(s) ==
  /\ last = NoCall
  /\ LET r == Graph_from_str(s)
     IN /\ IF r.err = "" THEN Install(r.g) ELSE UNCHANGED gvars
        /\ last' = Call("from_str", <<s>>, r.err, <<>>)
  /\ UNCHANGED <<directed, created, ops>>

\* completing_a_tree(s), called once in a run, with the graph it builds.
CompletingATree(s) ==
  /\ last = NoCall
  /\ LET r == completing_a_tree(s)
     IN /\ IF r.err = "" THEN Install(r.g) ELSE UNCHANGED gvars
        /\ last' = Call("completing_a_tree", <<s>>, r.err, r.ret)
  /\ UNCHANGED <<directed, created, ops>>

\* Graph.from_str makes Graph(), which is undirected.
InitText == Init /\ ~directed

NextText ==
  /\ last = NoCall
  /\ \/ \E s \in Texts : FromStr(s)
     \/ \E s \in Texts : CompletingATree(s)

SpecText == InitText /\ [][NextText]_vars

Bases == {"A", "C"}

\* The reads of n symbols.
Reads(n) == [1..n -> Bases]

\* The reads of test_genome_assembly_as_shortest_superstring.
AssemblyExample ==
  << <<"A", "T", "T", "A", "G", "A", "C", "C", "T", "G">>,
     <<"C", "C", "T", "G", "C", "C", "G", "G", "A", "A">>,
     <<"A", "G", "A", "C", "C", "T", "G", "C", "C", "G">>,
     <<"G", "C", "C", "G", "G", "A", "A", "T", "A", "C">> >>

\* The orders in which n reads can be written in a text.
ReadOrders(n) ==
  {p \in [1..n -> 1..n] : \A i \in 1..n, j \in 1..n : p[i] = p[j] => i = j}

RECURSIVE ReadLists(_)
\* The texts handed in, as the lists of their reads: reads of two symbols or
\* more that have t symbols or fewer together.
ReadLists(t) ==
  {<<>>} \cup UNION {{<<r>> \o l : r \in Reads(n), l \in ReadLists(t - n)} :
                     n \in 2..t}

\* genome_assembly_as_shortest_superstring(s), called once in a run, with the
\* graph it builds.
Assemble(fastas) ==
  /\ last = NoCall
  /\ \E r \in {genome_assembly_as_shortest_superstring(fastas)} :
       /\ Install(r.g)
       /\ last' = Call("genome_assembly_as_shortest_superstring", <<fastas>>,
                       r.err, [state |-> r.state, order |-> r.order,
                               sequence |-> r.ret])
  /\ UNCHANGED <<directed, created, ops>>

\* The overlap graph is Graph(directed=True).
InitAssembly == Init /\ directed

NextAssembly ==
  /\ last = NoCall
  /\ \/ \E p \in ReadOrders(Len(AssemblyExample)) :
          Assemble([i \in DOMAIN AssemblyExample |-> AssemblyExample[p[i]]])
     \/ \E fastas \in ReadLists(MaxSymbols) : Assemble(fastas)

SpecAssembly == InitAssembly /\ [][NextAssembly]_vars

----------------------------------------------------------------------------
Positions(list, x) == {i \in DOMAIN list : list[i] = x}

\* C1: add_node(p) returns a node with payload p, the node collection then
\* holds exactly one node with payload p, and when p was already present the
\* call returns the node that was there and changes neither the node
\* collection, the edge collection nor any node's lists.
C1_AddNodeIdempotent ==
  [][last'.op = "add_node" =>
       LET p == last'.args[1]
       IN /\ Cardinality(Positions(nodes', p)) = 1
          /\ nodes'[last'.ret] = p
          /\ p \in Range(nodes) =>
               /\ UNCHANGED gvars
               /\ Positions(nodes, p) = {last'.ret}]_vars

\* add_node was called with a payload the graph already had, next to another node.
C1_Witness ==
  /\ last.op = "add_node"
  /\ last.ret < Len(nodes)
  /\ Len(edges) > 0

\* C2: add_edge(A, B, tag) with A or B not in the graph fails with the
\* NodeNotInGraph error and leaves the node collection, the edge collection
\* and every node's lists unchanged.
C2_AddEdgeNotInGraph ==
  [][last'.op = "add_edge" =>
       LET a == last'.args[1]
           b == last'.args[2]
       IN (a \notin Range(nodes) \/ b \notin Range(nodes)) =>
            /\ last'.err = "NodeNotInGraphError"
            /\ UNCHANGED gvars]_vars

\* add_edge failed on a graph that has an edge, its first endpoint a member.
C2_Witness ==
  /\ last.op = "add_edge"
  /\ last.err = "NodeNotInGraphError"
  /\ last.args[1] \in Range(nodes)
  /\ last.args[2] \notin Range(nodes)
  /\ Len(edges) > 0

\* C10: starting_nodes() and ending_nodes() fail with the error exactly on an
\* undirected graph, and leave the graph unchanged.
C10_StartEndUndirected ==
  [][last'.op \in {"starting_nodes", "ending_nodes"} =>
       /\ UNCHANGED gvars
       /\ ~directed => last'.err = "ValueError" /\ last'.ret = <<>>
       /\ directed => last'.err = ""]_vars

\* ending_nodes() was refused on an undirected graph that has an edge.
C10_Witness ==
  /\ last.op = "ending_nodes"
  /\ last.err = "ValueError"
  /\ ~directed
  /\ Len(edges) > 0

\* An edge value to compare with; Edge.__eq__ does not look at the identity.
Probe(a, b, tag) == [node1 |-> a, node2 |-> b, tag |-> tag, oid |-> 0]

\* edge joins a and b (from a to b in a directed graph)
Joins(edge, a, b) ==
  IF directed
  THEN edge.node1 = a /\ edge.node2 = b
  ELSE {edge.node1, edge.node2} = {a, b}

\* edge is in the incident-edge lists of both its endpoints
Registered(edge, lists) ==
  /\ edge \in Range(lists[edge.node1])
  /\ edge \in Range(lists[edge.node2])

\* C3: add_edge(A, B, tag) called when an equal edge is already in the graph
\* (and registered with both endpoints) returns that edge, and the edge
\* collection and every node's incident-edge, incoming, outgoing and neighbor
\* lists are afterwards what they were before the call.
C3_DuplicateAddEdgeChangesNothing ==
  [][(/\ last'.op = "add_edge"
      /\ last'.err = ""
      /\ \E e \in Range(edges) :
           /\ Edge_eq(e, Probe(last'.args[1], last'.args[2], last'.args[3]))
           /\ Registered(e, nedges))
     => /\ last'.ret \in Range(edges)
        /\ Edge_eq(last'.ret, Probe(last'.args[1], last'.args[2], last'.args[3]))
        /\ UNCHANGED <<edges, nedges, incoming_nodes, outgoing_nodes, neighbors>>]_vars

\* C4: every node's degree is the number of edges of the edge collection
\* that have the node as an endpoint (checked under SpecEdit: add_node,
\* add_edge and remove_edge only).
C4_DegreeCountsEdges ==
  \A n \in Range(nodes) :
    degree(Cur, n) =
      Cardinality({i \in DOMAIN edges : n \in {edges[i].node1, edges[i].node2}})

\* C5: both endpoints of every edge of the edge collection are in the node
\* collection (checked under SpecEditNodes: add_node, add_edge, remove_edge
\* and remove_edge_and_nodes only).
C5_EndpointsAreMembers ==
  \A i \in DOMAIN edges :
    edges[i].node1 \in Range(nodes) /\ edges[i].node2 \in Range(nodes)

\* C6: after remove_edge(e), e is in neither the edge collection nor an
\* endpoint's incident-edge list, and every other edge of the graph is still
\* in the edge collection and in each endpoint's incident-edge list it was in.
C6_RemoveEdgeRemovesOnlyThat ==
  [][last'.op = "remove_edge" =>
       LET e == last'.args[1]
       IN /\ e \notin Range(edges')
          /\ e \notin Range(nedges'[e.node1]) \cup Range(nedges'[e.node2])
          /\ \A x \in Range(edges) \ {e} :
               /\ x \in Range(edges')
               /\ \A n \in {x.node1, x.node2} :
                    x \in Range(nedges[n]) => x \in Range(nedges'[n])]_vars

\* C7: when remove_edge detaches e from its endpoint X and another edge s
\* still attached to X connects X with the other endpoint Y, the entries for Y
\* that s supports in X's outgoing, incoming and neighbor lists stay.
C7_SupportedNeighborStays ==
  [][last'.op = "remove_edge" =>
       LET e == last'.args[1]
       IN \A X \in {e.node1, e.node2} :
            LET Y == IF X # e.node1 THEN e.node1 ELSE e.node2
            IN \A s \in Range(nedges'[X]) :
                 {s.node1, s.node2} = {X, Y} =>
                   /\ ((~directed \/ s.node1 = X) /\ Y \in Range(outgoing_nodes[X]))
                        => Y \in Range(outgoing_nodes'[X])
                   /\ ((~directed \/ s.node1 # X) /\ Y \in Range(incoming_nodes[X]))
                        => Y \in Range(incoming_nodes'[X])
                   /\ Y \in Range(neighbors[X]) => Y \in Range(neighbors'[X])]_vars

\* C8: two undirected edges are equal iff they have the same set of endpoints
\* and the same tag; two directed edges are equal iff source, target and tag
\* coincide (over the Edge objects of the graph).
C8_EdgeEquality ==
  \A e1 \in Live(Cur), e2 \in Live(Cur) :
    Edge_eq(e1, e2) <=>
      /\ e1.tag = e2.tag
      /\ IF directed
         THEN e1.node1 = e2.node1 /\ e1.node2 = e2.node2
         ELSE {e1.node1, e1.node2} = {e2.node1, e2.node2}

\* C9: after join_nodes_by_func(f), for every ordered pair (A, B) of distinct
\* nodes on which f holds the edge collection has an edge from A to B that is
\* in the incident-edge lists of A and of B, and no edge was added for a pair
\* on which f does not hold.
C9_JoinCreatesRegisteredEdges ==
  [][last'.op = "join_nodes_by_func" =>
       LET f == last'.args[1]
       IN /\ \A pr \in f :
               \E e \in Range(edges') :
                 /\ Joins(e, pr[1], pr[2])
                 /\ e \in Range(nedges'[pr[1]])
                 /\ e \in Range(nedges'[pr[2]])
          /\ \A e \in Range(edges') \ Range(edges) : <<e.node1, e.node2>> \in f]_vars

\* C11: on a directed graph, starting_nodes() returns exactly the nodes that
\* are an endpoint of some edge of the edge collection and the target of
\* none, and ending_nodes() exactly those that are an endpoint of some edge
\* and the source of none (checked under SpecEdit).
C11_StartEndExact ==
  directed =>
    LET incident(n) == \E i \in DOMAIN edges : n \in {edges[i].node1, edges[i].node2}
    IN /\ Range(Graph_starting_nodes(Cur).ret) =
            {n \in Range(nodes) :
               incident(n) /\ ~\E i \in DOMAIN edges : edges[i].node2 = n}
       /\ Range(Graph_ending_nodes(Cur).ret) =
            {n \in Range(nodes) :
               incident(n) /\ ~\E i \in DOMAIN edges : edges[i].node1 = n}

\* The condition of C12 on the lists the nodes keep: exactly one node with no
\* incoming entry and degree > 0, exactly one with no outgoing entry and
\* degree > 0, and no node of degree > 2.
LinearShape ==
  /\ Cardinality({n \in Range(nodes) :
                    Len(incoming_nodes[n]) = 0 /\ Len(nedges[n]) > 0}) = 1
  /\ Cardinality({n \in Range(nodes) :
                    Len(outgoing_nodes[n]) = 0 /\ Len(nedges[n]) > 0}) = 1
  /\ \A n \in Range(nodes) : Len(nedges[n]) <= 2

\* C12 as stated: for every graph, is_linear() returns true iff the graph has
\* exactly one node of in-degree 0 with degree > 0, exactly one node of
\* out-degree 0 with degree > 0 and no node of degree > 2, and false otherwise.
C12_IsLinearEveryGraph ==
  [][last'.op = "is_linear" =>
       /\ last'.err = ""
       /\ last'.ret = LinearShape]_vars

\* C12 amended: on a directed graph is_linear() returns true iff the condition
\* holds and false otherwise; on an undirected graph it returns false when
\* some node has degree > 2 and fails with the invalid-operation error
\* otherwise.
C12_IsLinearDirected ==
  [][last'.op = "is_linear" =>
       /\ UNCHANGED gvars
       /\ directed => last'.err = "" /\ last'.ret = LinearShape
       /\ ~directed =>
            IF \E n \in Range(nodes) : Len(nedges[n]) > 2
            THEN last'.err = "" /\ last'.ret = FALSE
            ELSE last'.err = "ValueError"]_vars

\* is_linear() returned true on a directed graph with a chain of two edges.
C12_Witness ==
  /\ last.op = "is_linear"
  /\ last.err = ""
  /\ last.ret = TRUE
  /\ directed
  /\ Len(edges) >= 2

\* The nodes of degree > 0 can be ordered n1..nk so that the edge collection
\* is exactly n1->n2, ..., n(k-1)->nk.
SinglePath ==
  LET C == {n \in Range(nodes) : Len(nedges[n]) > 0}
      k == Cardinality(C)
  IN /\ Len(edges) = k - 1
     /\ \E s \in [1..k -> C] :
          /\ \A i \in 1..k, j \in 1..k : s[i] = s[j] => i = j
          /\ \A i \in 1..(k - 1) :
               \E j \in DOMAIN edges :
                 edges[j].node1 = s[i] /\ edges[j].node2 = s[i + 1]

\* C13: whenever is_linear() returns true for a directed graph, the edges of
\* the graph form a single simple path through every node of degree > 0.
C13_LinearIsSinglePath ==
  [][(last'.op = "is_linear" /\ directed /\ last'.err = "" /\ last'.ret)
       => SinglePath]_vars

\* C15: the sets returned by disconnected_subgraphs() partition the node
\* collection: their union is the set of all nodes and two different
\* returned sets are disjoint (checked under SpecEdit).
C15_FillsPartition ==
  LET fills == Graph_disconnected_subgraphs(Cur)
  IN /\ UNION Range(fills) = Range(nodes)
     /\ \A i \in DOMAIN fills, j \in DOMAIN fills :
          i # j => fills[i] \cap fills[j] = {}

RECURSIVE Joined(_)
\* The nodes joined to a node of T by a path of edges of the edge collection,
\* direction ignored.
Joined(T) ==
  LET more == T \cup {n \in Range(nodes) :
                        \E i \in DOMAIN edges :
                          \/ edges[i].node1 \in T /\ edges[i].node2 = n
                          \/ edges[i].node2 \in T /\ edges[i].node1 = n}
  IN IF more = T THEN T ELSE Joined(more)

\* C16: two nodes lie in the same set returned by disconnected_subgraphs()
\* iff a path of edges of the edge collection joins them, direction ignored,
\* and every maximal connected set is returned exactly once (checked under
\* SpecEdit).
C16_FillsAreComponents ==
  LET fills == Graph_disconnected_subgraphs(Cur)
  IN /\ \A a \in Range(nodes), b \in Range(nodes) :
          (\E i \in DOMAIN fills : a \in fills[i] /\ b \in fills[i])
            <=> b \in Joined({a})
     /\ \A a \in Range(nodes) :
          Cardinality({i \in DOMAIN fills : fills[i] = Joined({a})}) = 1

\* The text declares a node count and every label on its pair lines lies in
\* 1..n.
ValidText(s) ==
  /\ s # <<>>
  /\ \A i \in 2..Len(s) :
       Len(s[i]) = 2 /\ s[i][1] \in 1..s[1][1] /\ s[i][2] \in 1..s[1][1]

RECURSIVE SumDegrees(_)
SumDegrees(k) == IF k = 0 THEN 0 ELSE Len(nedges[nodes[k]]) + SumDegrees(k - 1)

\* C14: for a text with node count n and labels in 1..n, from_str builds an
\* undirected graph with exactly n nodes labelled 1..n whose node degrees sum
\* to twice the number of edges the graph holds.
C14_FromStrDegreeSum ==
  [][(last'.op = "from_str" /\ ValidText(last'.args[1])) =>
       /\ last'.err = ""
       /\ ~directed'
       /\ nodes' = [i \in 1..last'.args[1][1][1] |-> i]
       /\ SumDegrees(Len(nodes))' = 2 * Len(edges')]_vars

\* The pairs of the text are the edges of an acyclic undirected graph, each
\* listed once: no loop, no pair twice, and every non-empty set of the edges
\* has a node on exactly one of them.
ForestText(s) ==
  /\ ValidText(s)
  /\ \A i \in 2..Len(s) : s[i][1] # s[i][2]
  /\ \A i \in 2..Len(s), j \in 2..Len(s) :
       i # j => {s[i][1], s[i][2]} # {s[j][1], s[j][2]}
  /\ \A E \in SUBSET (2..Len(s)) :
       E # {} =>
         \E n \in 1..s[1][1] :
           Cardinality({i \in E : n \in {s[i][1], s[i][2]}}) = 1

\* C17: for a text of an acyclic undirected graph on n nodes with m distinct
\* edges, completing_a_tree returns n - m - 1.
C17_CompletingATree ==
  [][(last'.op = "completing_a_tree" /\ ForestText(last'.args[1])) =>
       /\ last'.err = ""
       /\ last'.ret = last'.args[1][1][1] - (Len(last'.args[1]) - 1) - 1]_vars

\* completing_a_tree returned 3 for the text of the test.
C17_Witness ==
  /\ last.op = "completing_a_tree"
  /\ last.args[1] = TreeExample
  /\ last.err = ""
  /\ last.ret = 3

\* The overlap relation on the reads themselves: different reads whose
\* largest overlap exceeds half the length of the shortest read.
Overlaps(fastas, a, b) ==
  LET min_len == CHOOSE l \in {Len(fastas[i]) : i \in DOMAIN fastas} :
                   \A i \in DOMAIN fastas : l <= Len(fastas[i])
  IN a # b /\ max_overlap(a, b) > min_len \div 2

\* The overlap graph is a single linear chain over all reads: the different
\* reads can be ordered r1..rk, k >= 2, so that the overlaps are exactly
\* r1->r2, ..., r(k-1)->rk.
ChainOverAllReads(fastas) ==
  LET R == Range(fastas)
      k == Cardinality(R)
  IN /\ k >= 2
     /\ \E s \in [1..k -> R] :
          /\ \A i \in 1..k, j \in 1..k : s[i] = s[j] => i = j
          /\ \A i \in 1..k, j \in 1..k :
               Overlaps(fastas, s[i], s[j]) <=> j = i + 1

\* C18: assembly of reads whose overlap graph is not a single linear chain
\* over all reads fails with the non-linear-graph error and returns no string.
C18_NonLinearFails ==
  [][(/\ last'.op = "genome_assembly_as_shortest_superstring"
      /\ last'.args[1] # <<>>
      /\ ~ChainOverAllReads(last'.args[1]))
     => /\ last'.err = "ValueError"
        /\ last'.ret.state = "Rejected"]_vars

\* C19: whenever is_linear() holds for the overlap graph, the walk ends with
\* an order of exactly edge_count + 1 nodes, no node twice, every consecutive
\* pair an edge of the graph, and the run reaches Assembled without failing
\* for lack of an outgoing neighbor.
C19_WalkSucceeds ==
  [][(/\ last'.op = "genome_assembly_as_shortest_superstring"
      /\ last'.args[1] # <<>>
      /\ Graph_is_linear(Cur).ret' = TRUE)
     => LET order == last'.ret.order
        IN /\ last'.err = ""
           /\ last'.ret.state = "Assembled"
           /\ Len(order) = Len(edges') + 1
           /\ \A i \in DOMAIN order, j \in DOMAIN order : order[i] = order[j] => i = j
           /\ \A i \in 1..(Len(order) - 1) :
                \E j \in DOMAIN edges' :
                  edges'[j].node1 = order[i] /\ edges'[j].node2 = order[i + 1]]_vars

\* read occurs in text as a contiguous substring
Occurs(read, text) ==
  \E i \in 1..(Len(text) - Len(read) + 1) :
    SubSeq(text, i, i + Len(read) - 1) = read

\* C20: whenever the assembly returns a string, every input read occurs in
\* it as a contiguous substring; for the four reads of the test the string is
\* ATTAGACCTGCCGGAATAC.
C20_ReadsOccur ==
  [][(last'.op = "genome_assembly_as_shortest_superstring" /\ last'.err = "")
       => /\ \A i \in DOMAIN last'.args[1] :
               Occurs(last'.args[1][i], last'.ret.sequence)
          /\ last'.args[1] = AssemblyExample =>
               last'.ret.sequence =
                 <<"A", "T", "T", "A", "G", "A", "C", "C", "T", "G",
                   "C", "C", "G", "G", "A", "A", "T", "A", "C">>]_vars

RECURSIVE Reachable(_)
\* The nodes reached from a node of T by following neighbor links.
Reachable(T) ==
  LET more == T \cup UNION {Range(neighbors[n]) : n \in T}
  IN IF more = T THEN T ELSE Reachable(more)

LargestOverlap(a, b) ==
  LET ks == {k \in 1..Len(a) : k <= Len(b) /\
               \A j \in 1..k : a[Len(a) - k + j] = b[j]}
  IN IF ks = {} THEN 0 ELSE CHOOSE k \in ks : \A j \in ks : j <= k

RECURSIVE PairwiseJoin(_, _)
\* r1 followed, for each consecutive pair (ri, ri+1) of the reads rs, by the
\* suffix of ri+1 beyond the largest overlap of ri and ri+1.
PairwiseJoin(rs, n) ==
  IF n = 1 THEN rs[1]
  ELSE PairwiseJoin(rs, n - 1) \o
       SubSeq(rs[n], LargestOverlap(rs[n - 1], rs[n]) + 1, Len(rs[n]))

\* C22: the string assembled from the read order r1..rn of the walk is r1
\* followed, for each consecutive pair (ri, ri+1), by the suffix of ri+1
\* beyond k_i, the largest overlap of ri and ri+1 (checked under
\* SpecAssembly).
C22_AssembledIsPairwiseJoin ==
  [][(last'.op = "genome_assembly_as_shortest_superstring" /\ last'.err = "") =>
       LET fastas == last'.args[1]
           order == last'.ret.order
           rs == [i \in DOMAIN order |-> fastas[order[i]]]
       IN last'.ret.sequence = PairwiseJoin(rs, Len(rs))]_vars

\* An assembly of three reads or more in which every read overlaps the next
\* one in part, so that the string joined so far is longer than the read
\* joined last.
C22_Witness ==
  /\ last.op = "genome_assembly_as_shortest_superstring"
  /\ last.err = ""
  /\ LET fastas == last.args[1]
         order == last.ret.order
     IN /\ Len(order) >= 3
        /\ \A i \in 1..(Len(order) - 1) :
             /\ LargestOverlap(fastas[order[i]], fastas[order[i + 1]]) > 0
             /\ LargestOverlap(fastas[order[i]], fastas[order[i + 1]])
                  < Len(fastas[order[i]])
        /\ Len(last.ret.sequence) > Len(fastas[order[1]]) + 1

\* C23: remove_edge_and_nodes(e) removes e and then drops from the node
\* collection every node whose neighbor list is empty, the nodes that were
\* isolated before the call and are no endpoint of e too; afterwards no node
\* of the graph has an empty neighbor list, and the nodes that have a
\* neighbor are kept in their original relative order.
C23_RemoveEdgeAndNodes ==
  [][last'.op = "remove_edge_and_nodes" =>
       LET e == last'.args[1]
       IN /\ e \notin Range(edges')
          /\ e \notin Range(nedges'[e.node1]) \cup Range(nedges'[e.node2])
          /\ \A n \in Range(nodes) :
               n \in Range(nodes') <=> neighbors'[n] # <<>>
          /\ \A n \in Range(nodes') : neighbors'[n] # <<>>
          /\ nodes' = SelectSeq(nodes, LAMBDA n : n \in Range(nodes'))]_vars

\* remove_edge_and_nodes(e) has dropped a node that was isolated before the
\* call and is no endpoint of e, and has kept two nodes.
C23_Witness ==
  /\ last.op = "remove_edge_and_nodes"
  /\ LET e == last.args[1]
     IN /\ \E n \in created \ Range(nodes) :
             n \notin {e.node1, e.node2} /\ neighbors[n] = <<>>
        /\ Len(nodes) >= 2

\* The reads with the i-th and the next one exchanged.
Exchanged(fastas, i) ==
  [k \in DOMAIN fastas |-> IF k = i THEN fastas[i + 1]
                           ELSE IF k = i + 1 THEN fastas[i]
                           ELSE fastas[k]]

\* C24: the outcome of genome_assembly_as_shortest_superstring, the string
\* returned or the error raised, does not depend on the order in which the
\* reads are supplied: it stays the same when two neighbouring reads change
\* places, for every list of reads, and every order of a list is reached from
\* every other one by such exchanges (checked under SpecAssembly, where every
\* list of reads is handed in in every order).
C24_OrderIndependent ==
  [][last'.op = "genome_assembly_as_shortest_superstring" =>
       LET fastas == last'.args[1]
       IN \A i \in 1..(Len(fastas) - 1) :
            \E r \in {genome_assembly_as_shortest_superstring(Exchanged(fastas, i))} :
              r.err = last'.err /\ r.ret = last'.ret.sequence]_vars

\* Three different reads, not supplied in the order of their chain, have been
\* assembled into a string.
C24_Witness ==
  /\ last.op = "genome_assembly_as_shortest_superstring"
  /\ last.err = ""
  /\ Len(last.ret.order) = 3
  /\ last.ret.order # <<1, 2, 3>>
  /\ Len(last.args[1]) = 3
====
